---- MODULE Spec2Model ----
(***************************************************************************)
(* PiDNG core (src/src/pidng/core.py): the DNG converter classes DNGBASE,  *)
(* RAW2DNG, CAM2DNG, RPICAM2DNG and PICAM2DNG.                             *)
(*                                                                         *)
(* One converter object is modelled together with one call of convert()    *)
(* at a time, stepped through the statements of convert() and              *)
(* __process__().  numpy arrays are records [dtype, rows, cols, v] with v  *)
(* the row-major element sequence; byte strings are sequences of 0..255.   *)
(* pidng/packing.py and pidng/dng.py are imported by core.py but are not   *)
(* part of the source tree at hand; their operators are written from the   *)
(* design document and are marked as such where they are defined.          *)
(***************************************************************************)
EXTENDS Integers, Sequences, FiniteSets, TLC

\* ------------------------------------------------------------- bounds
\* Arrays have 1..MaxRows rows and 4*g columns, g in 1..MaxGroups.
MaxRows == 2
MaxGroups == 2

\* ------------------------------------------------------- bit helpers
RECURSIVE Pow2(_)
Pow2(n) == IF n = 0 THEN 1 ELSE 2 * Pow2(n - 1)

Shl(a, n) == a * Pow2(n)
Shr(a, n) == a \div Pow2(n)

RECURSIVE BitAnd(_, _)
BitAnd(a, b) ==
    IF a = 0 \/ b = 0 THEN 0
    ELSE (IF a % 2 = 1 /\ b % 2 = 1 THEN 1 ELSE 0) + 2 * BitAnd(a \div 2, b \div 2)

RECURSIVE BitOr(_, _)
BitOr(a, b) ==
    IF a = 0 THEN b
    ELSE IF b = 0 THEN a
    ELSE (IF a % 2 = 1 \/ b % 2 = 1 THEN 1 ELSE 0) + 2 * BitOr(a \div 2, b \div 2)

\* Arithmetic on numpy uint16 elements wraps at 2^16.
U16(x) == x % 65536

RECURSIVE Log2(_)
Log2(n) == IF n <= 1 THEN 0 ELSE 1 + Log2(n \div 2)

RECURSIVE SumSeq(_)
SumSeq(s) == IF s = <<>> THEN 0 ELSE Head(s) + SumSeq(Tail(s))

RECURSIVE Flatten(_)
Flatten(ss) == IF ss = <<>> THEN <<>> ELSE Head(ss) \o Flatten(Tail(ss))

\* ------------------------------------------------------------ arrays
Arr(dtype, rows, cols, v) == [dtype |-> dtype, rows |-> rows, cols |-> cols, v |-> v]

NoArray == Arr("none", 0, 0, <<>>)

\* Element (r, c), both counted from 0 as in numpy.
At(a, r, c) == a.v[r * a.cols + c + 1]

\* data[:height, :ncols]
Crop(a, height, ncols) ==
    LET h == IF height < a.rows THEN height ELSE a.rows
        w == IF ncols < a.cols THEN ncols ELSE a.cols
    IN  Arr(a.dtype, h, w, [i \in 1..(h * w) |-> At(a, (i - 1) \div w, (i - 1) % w)])

\* A ramp of n elements seed, seed+step, ... reduced modulo m.
Ramp(seed, step, n, m) == [i \in 1..n |-> (seed + (i - 1) * step) % m]

\* ndarray.tobytes(): little-endian element bytes, row-major.
\* A float32 element holds a small non-negative integer value k; its bytes
\* are those of the IEEE-754 single k.0.
F32Bits(k) ==
    IF k = 0 THEN 0
    ELSE LET e == Log2(k) IN (127 + e) * Pow2(23) + (k - Pow2(e)) * Pow2(23 - e)

ElemBytes(dtype, x) ==
    IF dtype = "uint8" THEN <<x % 256>>
    ELSE IF dtype = "uint16" THEN <<x % 256, (x \div 256) % 256>>
    ELSE LET b == F32Bits(x)
         IN  <<b % 256, (b \div 256) % 256, (b \div 65536) % 256, (b \div 16777216) % 256>>

ToBytes(a) == Flatten([i \in 1..Len(a.v) |-> ElemBytes(a.dtype, a.v[i])])

\* ndarray.astype('uint8'): every element reduced to one byte.
AsTypeU8(a) == Arr("uint8", a.rows, a.cols, [i \in 1..Len(a.v) |-> a.v[i] % 256])

\* --------------------------------------------------------- Bit Packer
\* pidng/packing.py is not in the source tree.  Written from the design
\* document, sections 4.3 and 6: the strip of an uncompressed DNG/TIFF image
\* of depth d is the samples' d-bit fields laid end to end, most significant
\* bit first, in runs of 4 samples with no padding (4*d/8 bytes per run).
RECURSIVE BitsOf(_, _)
BitsOf(x, d) == IF d = 0 THEN <<>> ELSE <<(x \div Pow2(d - 1)) % 2>> \o BitsOf(x, d - 1)

RECURSIVE BytesOfBits(_)
BytesOfBits(bits) ==
    IF Len(bits) < 8 THEN <<>>
    ELSE <<128 * bits[1] + 64 * bits[2] + 32 * bits[3] + 16 * bits[4]
           + 8 * bits[5] + 4 * bits[6] + 2 * bits[7] + bits[8]>>
         \o BytesOfBits(SubSeq(bits, 9, Len(bits)))

PackRun(run, d) == BytesOfBits(Flatten([i \in 1..Len(run) |-> BitsOf(run[i], d)]))

PackBits(a, d) ==
    LET runs == (a.rows * a.cols) \div 4
        out  == Flatten([g \in 1..runs |-> PackRun(SubSeq(a.v, 4 * g - 3, 4 * g), d)])
    IN  Arr("uint8", a.rows, (a.cols * d) \div 8, out)

pack10(a) == PackBits(a, 10)
pack12(a) == PackBits(a, 12)
pack14(a) == PackBits(a, 14)

\* ------------------------------------------------------ Pixel Unpacker
\* A Capture Format Descriptor (model.fmt): size (w, h), stride, bpp and
\* whether the format name contains "CSI2P".
Fmt(w, h, stride, bpp, packed) ==
    [w |-> w, h |-> h, stride |-> stride, bpp |-> bpp, packed |-> packed]

\* core.py 192-195: the stored bits per pixel.
StoredBpp(fmt) == IF fmt.packed THEN fmt.bpp ELSE 16

\* core.py 197: int(width * (s_bpp / 8)).
BytesPerRow(fmt) == (fmt.w * StoredBpp(fmt)) \div 8

\* core.py 201-204.  d is the cropped array already shifted left by 2 as
\* uint16, the fifth byte of each group included; the low bits are taken
\* from that shifted fifth byte.
Unpack10Elem(d, r, g, i) ==
    BitOr(At(d, r, 5 * g + i), BitAnd(Shr(At(d, r, 5 * g + 4), (i + 1) * 2), 3))

Unpack10(data) ==
    LET d    == Arr("uint16", data.rows, data.cols,
                    [k \in 1..Len(data.v) |-> U16(Shl(data.v[k], 2))])
        cols == (data.cols \div 5) * 4
    IN  Arr("uint16", data.rows, cols,
            [k \in 1..(data.rows * cols) |->
                Unpack10Elem(d, (k - 1) \div cols, ((k - 1) % cols) \div 4, ((k - 1) % cols) % 4)])

\* core.py 206-211.
Unpack12Elem(d, r, g, i) ==
    IF i = 0
    THEN U16(Shl(At(d, r, 3 * g), 4) + BitAnd(At(d, r, 3 * g + 2), 15))
    ELSE U16(Shl(At(d, r, 3 * g + 1), 4) + BitAnd(Shr(At(d, r, 3 * g + 2), 4), 15))

Unpack12(data) ==
    LET cols == (data.cols \div 3) * 2
    IN  Arr("uint16", data.rows, cols,
            [k \in 1..(data.rows * cols) |->
                Unpack12Elem(data, (k - 1) \div cols, ((k - 1) % cols) \div 2, ((k - 1) % cols) % 2)])

\* core.py 213: view(np.uint16), little-endian byte pairs.
View16(data) ==
    LET cols == data.cols \div 2
    IN  Arr("uint16", data.rows, cols,
            [k \in 1..(data.rows * cols) |->
                LET r == (k - 1) \div cols
                    c == (k - 1) % cols
                IN  At(data, r, 2 * c) + 256 * At(data, r, 2 * c + 1)])

\* RPICAM2DNG.__unpack_pixels__ (core.py 182-215).  There is no branch for a
\* stored depth other than 10, 12 or 16: the cropped bytes are returned.
RPiUnpackPixels(fmt, data) ==
    IF data.dtype # "uint8" THEN data
    ELSE LET c == Crop(data, fmt.h, BytesPerRow(fmt))
         IN  IF StoredBpp(fmt) = 10 THEN Unpack10(c)
             ELSE IF StoredBpp(fmt) = 12 THEN Unpack12(c)
             ELSE IF StoredBpp(fmt) = 16 THEN View16(c)
             ELSE c

IsRPi(v) == v \in {"RPICAM2DNG", "PICAM2DNG"}

\* __unpack_pixels__ as dispatched on the converter's class.
UnpackPixels(v, fmt, data) == IF IsRPi(v) THEN RPiUnpackPixels(fmt, data) ELSE data

\* --------------------------------------------------------- tag tables
\* A caller's tag table (DNGTags) is a set of <<tag, value>> pairs with at
\* most one pair per tag.  NoTags stands for the attribute value None.
NoTags == {<<"None", 0>>}

Has(t, tag) == \E p \in t : p[1] = tag
Get(t, tag) == IF Has(t, tag) THEN (CHOOSE p \in t : p[1] = tag)[2] ELSE 0

BaseTable(bpp) == {<<"ImageWidth", 4>>, <<"ImageLength", 2>>, <<"BitsPerSample", bpp>>}

Depths == {8, 10, 12, 14, 16, 32}

CompleteTables ==
    {BaseTable(b) : b \in Depths}
    \cup {BaseTable(16) \cup {<<"Make", 0>>}, BaseTable(16) \cup {<<"Compression", 1>>}}

IncompleteTables == {BaseTable(16) \ {p} : p \in BaseTable(16)}

Tables == CompleteTables \cup IncompleteTables

\* DNGBASE.__tags_condition__ (core.py 21-27).
TagsCondition(t) ==
    IF ~Has(t, "ImageWidth") THEN "MissingRequiredTag"
    ELSE IF ~Has(t, "ImageLength") THEN "MissingRequiredTag"
    ELSE IF ~Has(t, "BitsPerSample") THEN "MissingRequiredTag"
    ELSE "ok"

\* ------------------------------------------------------------- inputs
Patterns16 == {<<1020, 341>>}

Shapes == {<<r, 4 * g>> : r \in 1..MaxRows, g \in 1..MaxGroups}

Frames16 ==
    {Arr("uint16", sh[1], sh[2], Ramp(p[1], p[2], sh[1] * sh[2], 1024)) :
        sh \in Shapes, p \in Patterns16}

FramesF32 == {Arr("float32", sh[1], sh[2], Ramp(0, 1, sh[1] * sh[2], 256)) : sh \in Shapes}

Bytes8 == Arr("uint8", 1, 5, <<0, 64, 32, 12, 4>>)

\* The capture formats of the camera model: packed 8, 10, 12 and 14 bit,
\* and unpacked (16 bit stored).  Rows carry two bytes of padding.
Fmts ==
    {Fmt(sh[2], sh[1], ((sh[2] * (IF k[2] THEN k[1] ELSE 16)) \div 8) + 2, k[1], k[2]) :
        sh \in Shapes,
        k \in {<<8, TRUE>>, <<10, TRUE>>, <<12, TRUE>>, <<14, TRUE>>, <<10, FALSE>>}}

NoFmt == Fmt(0, 0, 0, 8, FALSE)

\* A capture buffer of the given format: h rows of stride bytes.
Buffers(fmt) ==
    {Arr("uint8", fmt.h, fmt.stride, Ramp(p[1], p[2], fmt.h * fmt.stride, 256)) :
        p \in {<<1, 1>>, <<250, 37>>}}

Variants == {"RAW2DNG", "CAM2DNG", "RPICAM2DNG", "PICAM2DNG"}

Images(v, fmt) ==
    IF IsRPi(v)
    THEN Buffers(fmt) \cup {Arr("uint16", fmt.h, fmt.w, Ramp(1, 1, fmt.h * fmt.w, 1024))}
    ELSE Frames16 \cup FramesF32 \cup {Bytes8}

\* --------------------------------------------------- Sample Filter Hook
\* The caller's hooks, by what they return for a frame: the frame itself, a
\* new frame of the same shape and type, a frame one column short, a
\* float32 frame, or something that is no array.
Hooks == {"identity", "invert", "badshape", "baddtype", "notarray"}

HookResult(h, a) ==
    IF h = "identity" THEN a
    ELSE IF h = "invert"
        THEN Arr("uint16", a.rows, a.cols, [i \in 1..Len(a.v) |-> 1023 - (a.v[i] % 1024)])
    ELSE IF h = "badshape" THEN Crop([a EXCEPT !.dtype = "uint16"], a.rows, a.cols - 1)
    ELSE IF h = "baddtype" THEN [a EXCEPT !.dtype = "float32"]
    ELSE NoArray

\* A variant of FilterCheck: the element type of the result is not checked.
FilterCheckNoType(raw, processed) ==
    IF processed.dtype = "none" THEN "FilterNotArray"
    ELSE IF <<processed.rows, processed.cols>> # <<raw.rows, raw.cols>> THEN "FilterShapeError"
    ELSE "ok"

\* DNGBASE.__filter__ (core.py 32-45): the error it raises, or "ok".
FilterCheck(raw, processed) ==
    IF processed.dtype = "none" THEN "FilterNotArray"
    ELSE IF <<processed.rows, processed.cols>> # <<raw.rows, raw.cols>> THEN "FilterShapeError"
    ELSE IF processed.dtype # "uint16" THEN "FilterTypeError"
    ELSE "ok"

\* -------------------------------------------------------------- state
VARIABLES
    variant,      \* the converter's class
    model,        \* the camera model given to a CAM2DNG: [tags, fmt]
    self,         \* the converter's attributes
    optResult,    \* how the last options() call ended: "none", "ok" or the error
    pc,           \* position in convert()
    image,        \* convert()'s argument
    filename,     \* convert()'s argument
    unpacked,     \* core.py 141
    filtered,     \* core.py 142
    tile,         \* the strip bytes built by __process__: [set, bytes]
    coderInvoked, \* pack16tolj was called in this convert()
    ifd,          \* mainIFD.tags, in insertion order
    strips,       \* dngTemplate.ImageDataStrips
    ifdsAdded,    \* mainIFD has been appended to dngTemplate.IFDs
    totalLength,  \* core.py 116
    stripOffsets, \* dngTemplate.StripOffsets
    buf,          \* the buffer: [allocated, len, header, ifd, strips]
    outcome,      \* how the last convert() ended, "none" before that
    fileOut       \* the file written: [written, name, len]

vars == <<variant, model, self, optResult, pc, image, filename, unpacked, filtered,
          tile, coderInvoked, ifd, strips, ifdsAdded, totalLength, stripOffsets, buf,
          outcome, fileOut>>

NoTile == [set |-> FALSE, bytes |-> <<>>]
NoBuf == [allocated |-> FALSE, len |-> 0, header |-> 0, ifd |-> <<>>, ifdLen |-> 0,
          strips |-> <<>>]
NoFile == [written |-> FALSE, name |-> <<"", "">>, len |-> 0]

\* The locals and results of a convert() call before its first statement.
Fresh ==
    /\ unpacked' = NoArray
    /\ filtered' = NoArray
    /\ tile' = NoTile
    /\ coderInvoked' = FALSE
    /\ ifd' = <<>>
    /\ strips' = <<>>
    /\ ifdsAdded' = FALSE
    /\ totalLength' = 0
    /\ stripOffsets' = <<>>
    /\ buf' = NoBuf
    /\ fileOut' = NoFile

\* DNGBASE.__init__ (core.py 11-15) and CAM2DNG.__init__ (core.py 166-168):
\* predictor is not among the attributes created.
Init ==
    /\ variant \in Variants
    /\ model \in IF variant = "RAW2DNG" THEN {[tags |-> NoTags, fmt |-> NoFmt]}
                 ELSE IF variant = "CAM2DNG"
                      THEN {[tags |-> t, fmt |-> NoFmt] :
                               t \in {BaseTable(16), BaseTable(16) \ {<<"ImageLength", 2>>}}}
                      ELSE {[tags |-> t, fmt |-> f] :
                               t \in {BaseTable(16), BaseTable(16) \ {<<"BitsPerSample", 16>>}},
                               f \in Fmts}
    /\ self = [tags |-> NoTags, compress |-> "None", path |-> "None",
               hasPredictor |-> FALSE, predictor |-> 0, filter |-> "None"]
    /\ optResult = "none"
    /\ pc = "idle"
    /\ image = NoArray
    /\ filename = ""
    /\ unpacked = NoArray
    /\ filtered = NoArray
    /\ tile = NoTile
    /\ coderInvoked = FALSE
    /\ ifd = <<>>
    /\ strips = <<>>
    /\ ifdsAdded = FALSE
    /\ totalLength = 0
    /\ stripOffsets = <<>>
    /\ buf = NoBuf
    /\ outcome = "none"
    /\ fileOut = NoFile

Between == pc \in {"idle", "done"}

BoolStr(b) == IF b THEN "True" ELSE "False"

\* ------------------------------------------------------------ options
\* A variant of RawOptionsSets: the attributes are assigned before the tags
\* are checked.
RawOptionsAssignFirst(tags, path, compress, predictor) ==
    /\ optResult' = TagsCondition(tags)
    /\ self' = [self EXCEPT !.tags = tags, !.compress = BoolStr(compress),
                            !.path = path, !.hasPredictor = TRUE,
                            !.predictor = predictor]

\* DNGBASE.options (core.py 127-132), the options() of a RAW2DNG.
RawOptionsSets(tags, path, compress, predictor) ==
    IF TagsCondition(tags) # "ok"
    THEN /\ optResult' = TagsCondition(tags)
         /\ self' = self
    ELSE /\ optResult' = "ok"
         /\ self' = [self EXCEPT !.tags = tags, !.compress = BoolStr(compress),
                                 !.path = path, !.hasPredictor = TRUE,
                                 !.predictor = predictor]

RawOptions ==
    /\ Between
    /\ variant = "RAW2DNG"
    /\ \E tags \in Tables, compress \in BOOLEAN, predictor \in {1, 2, 6} :
          RawOptionsSets(tags, "out", compress, predictor)
    /\ pc' = "idle"
    /\ outcome' = "none"
    /\ image' = NoArray
    /\ filename' = ""
    /\ Fresh
    /\ UNCHANGED <<variant, model>>

\* CAM2DNG.options (core.py 170-174) and PICAM2DNG.options (core.py 219-223):
\* the tags are the camera model's; predictor is not assigned.
CamOptionsSets(path, compress) ==
    IF TagsCondition(model.tags) # "ok"
    THEN /\ optResult' = TagsCondition(model.tags)
         /\ self' = self
    ELSE /\ optResult' = "ok"
         /\ self' = [self EXCEPT !.tags = model.tags, !.compress = BoolStr(compress),
                                 !.path = path]

CamOptions ==
    /\ Between
    /\ variant # "RAW2DNG"
    /\ \E compress \in BOOLEAN :
          CamOptionsSets(IF variant = "PICAM2DNG" THEN "" ELSE "out", compress)
    /\ pc' = "idle"
    /\ outcome' = "none"
    /\ image' = NoArray
    /\ filename' = ""
    /\ Fresh
    /\ UNCHANGED <<variant, model>>

\* The caller installs or removes a hook: self.filter is a plain attribute
\* (core.py 15) that no method assigns.
SetFilter ==
    /\ Between
    /\ \E h \in Hooks \cup {"None"} : h # self.filter /\ self' = [self EXCEPT !.filter = h]
    /\ pc' = "idle"
    /\ outcome' = "none"
    /\ image' = NoArray
    /\ filename' = ""
    /\ Fresh
    /\ UNCHANGED <<variant, model, optResult>>

\* ------------------------------------------------------------ convert
config == <<variant, model, self, optResult>>

\* __data_condition__: DNGBASE (core.py 17-19) raises on an element type
\* other than uint16 and float32; RPICAM2DNG (core.py 178-180) only warns.
DataCondition(v, img) ==
    IF ~IsRPi(v) /\ img.dtype \notin {"uint16", "float32"} THEN "WrongDtype" ELSE "ok"

Filenames == {"", "frame", "frame.dng"}

\* convert(), core.py 134-140.
ConvertStart ==
    /\ Between
    /\ \E img \in Images(variant, model.fmt), fname \in Filenames :
          /\ image' = img
          /\ filename' = fname
          /\ IF self.tags = NoTags
             THEN outcome' = "OptionsNotSet" /\ pc' = "done"
             ELSE IF DataCondition(variant, img) # "ok"
                  THEN outcome' = DataCondition(variant, img) /\ pc' = "done"
                  ELSE outcome' = "none" /\ pc' = "unpack"
    /\ Fresh
    /\ UNCHANGED config

\* core.py 141.
Unpack ==
    /\ pc = "unpack"
    /\ unpacked' = UnpackPixels(variant, model.fmt, image)
    /\ pc' = "filter"
    /\ UNCHANGED <<config, image, filename, filtered, tile, coderInvoked, ifd, strips,
                   ifdsAdded, totalLength, stripOffsets, buf, outcome, fileOut>>

\* core.py 142 with __filter__ (core.py 32-45).  rawFrame is only read.
Filter ==
    /\ pc = "filter"
    /\ unpacked' = unpacked
    /\ IF self.filter = "None"
       THEN filtered' = unpacked /\ outcome' = "none" /\ pc' = "encode"
       ELSE LET processed == HookResult(self.filter, unpacked)
            IN  IF FilterCheck(unpacked, processed) # "ok"
                THEN /\ filtered' = NoArray
                     /\ outcome' = FilterCheck(unpacked, processed)
                     /\ pc' = "done"
                ELSE filtered' = processed /\ outcome' = "none" /\ pc' = "encode"
    /\ UNCHANGED <<config, image, filename, tile, coderInvoked, ifd, strips, ifdsAdded,
                   totalLength, stripOffsets, buf, fileOut>>

\* ------------------------------------------------- __process__, encode
Truthy(c) == c = "True"

\* core.py 58-76: the error raised before a strip exists, or "ok".
FormatError(frame, compress, predictor) ==
    IF frame.dtype = "float32" /\ Truthy(compress) THEN "UnsupportedCompression"
    ELSE IF Truthy(compress) /\ predictor \notin {1, 6} THEN "InvalidPredictor"
    ELSE "ok"

\* A variant of CoderCalled: the coder runs before the element type is
\* looked at.
CoderCalledBeforeChecks(frame, compress, predictor) ==
    /\ Truthy(compress)
    /\ predictor \in {1, 6}

\* core.py 66-74: pack16tolj is called.
CoderCalled(frame, compress, predictor) ==
    /\ frame.dtype # "float32"
    /\ Truthy(compress)
    /\ predictor \in {1, 6}

\* What the external lossless coder may return: an opaque byte string.
CoderOutputs == {<<255, 216, 255, 217>>, <<255, 216, 0, 255, 217>>}

\* The packers of pidng/packing.py shift and mask their argument, which
\* numpy refuses for a float32 array.
PackOK(frame) == frame.dtype # "float32"

\* core.py 78-89: the strip without compression, chosen on bpp alone.
PlainStrip(frame, bpp) ==
    IF bpp = 8 THEN ToBytes(AsTypeU8(frame))
    ELSE IF bpp = 10 THEN ToBytes(pack10(frame))
    ELSE IF bpp = 12 THEN ToBytes(pack12(frame))
    ELSE IF bpp = 14 THEN ToBytes(pack14(frame))
    ELSE ToBytes(frame)

\* core.py 143 (the arguments of __process__ are read off self) and 48-89.
Encode ==
    /\ pc = "encode"
    /\ IF ~self.hasPredictor
       THEN outcome' = "AttributeError" /\ pc' = "done" /\ UNCHANGED <<tile, coderInvoked>>
       ELSE LET bpp == Get(self.tags, "BitsPerSample")
                err == FormatError(filtered, self.compress, self.predictor)
            IN  /\ coderInvoked' = CoderCalled(filtered, self.compress, self.predictor)
                /\ IF err # "ok"
                   THEN outcome' = err /\ pc' = "done" /\ tile' = tile
                   ELSE IF Truthy(self.compress)
                   THEN /\ \E out \in CoderOutputs : tile' = [set |-> TRUE, bytes |-> out]
                        /\ outcome' = "none"
                        /\ pc' = "pass1"
                   ELSE IF bpp \in {10, 12, 14} /\ ~PackOK(filtered)
                   THEN outcome' = "PackTypeError" /\ pc' = "done" /\ tile' = tile
                   ELSE /\ tile' = [set |-> TRUE, bytes |-> PlainStrip(filtered, bpp)]
                        /\ outcome' = "none"
                        /\ pc' = "pass1"
    /\ UNCHANGED <<config, image, filename, unpacked, filtered, ifd, strips, ifdsAdded,
                   totalLength, stripOffsets, buf, fileOut>>

\* ----------------------------------------------- container (pidng/dng.py)
\* pidng/dng.py and pidng/defs.py are not in the source tree.  The tag
\* registry is the TIFF/DNG one; the sizes are written from the design
\* document, sections 3 and 4.5: a directory is a count, one fixed entry per
\* tag and a next-directory link, followed by the overflow of the values too
\* wide to sit in their entry; the container is the header, then the
\* directories with their overflow, then the strips.
TagCode ==
    [NewSubfileType |-> 254, ImageWidth |-> 256, ImageLength |-> 257,
     BitsPerSample |-> 258, Compression |-> 259, Make |-> 271, StripOffsets |-> 273,
     StripByteCounts |-> 279, Software |-> 305, SampleFormat |-> 339,
     DNGVersion |-> 50706, DNGBackwardVersion |-> 50707]

\* Bytes per value of the tag's type: LONG 4, SHORT 2, ASCII and BYTE 1.
TypeSize ==
    [NewSubfileType |-> 4, ImageWidth |-> 4, ImageLength |-> 4,
     BitsPerSample |-> 2, Compression |-> 2, Make |-> 1, StripOffsets |-> 4,
     StripByteCounts |-> 4, Software |-> 1, SampleFormat |-> 2,
     DNGVersion |-> 1, DNGBackwardVersion |-> 1]

\* dngTag(tag, value): an entry of the directory.
dngTag(tag, val) == [tag |-> tag, val |-> val]

TagDataLen(e) == TypeSize[e.tag] * Len(e.val)
TagOverflow(e) == IF TagDataLen(e) > 4 THEN TagDataLen(e) ELSE 0

HeaderSize == 8

IFDLen(tags) == 2 + 12 * Len(tags) + 4 + SumSeq([i \in 1..Len(tags) |-> TagOverflow(tags[i])])

StripLens(ss) == [i \in 1..Len(ss) |-> Len(ss[i])]

\* DNG.dataLen(): the total length, and as a side effect the offset of
\* every strip (DNG.StripOffsets).
DirsLen(ifds) == SumSeq([i \in 1..Len(ifds) |-> IFDLen(ifds[i])])

DataLen(ifds, ss) == HeaderSize + DirsLen(ifds) + SumSeq(StripLens(ss))

Offsets(ifds, ss) ==
    [i \in 1..Len(ss) |-> HeaderSize + DirsLen(ifds) + SumSeq(SubSeq(StripLens(ss), 1, i - 1))]

\* The directory as serialized: ascending by tag code.
RECURSIVE InsertByCode(_, _)
InsertByCode(e, sorted) ==
    IF sorted = <<>> THEN <<e>>
    ELSE IF TagCode[e.tag] < TagCode[Head(sorted).tag] THEN <<e>> \o sorted
    ELSE <<Head(sorted)>> \o InsertByCode(e, Tail(sorted))

RECURSIVE SortByCode(_)
SortByCode(tags) ==
    IF tags = <<>> THEN <<>>
    ELSE InsertByCode(tags[Len(tags)], SortByCode(SubSeq(tags, 1, Len(tags) - 1)))

\* DNG.setBuffer() and DNG.write() into a buffer of n bytes: the header at
\* 0, the directory after it, each strip at its offset.
Written(n, ifds, ss, offs) ==
    [allocated |-> TRUE,
     len       |-> n,
     header    |-> HeaderSize,
     ifd       |-> IF ifds = <<>> THEN <<>> ELSE SortByCode(ifds[1]),
     ifdLen    |-> DirsLen(ifds),
     strips    |-> [i \in 1..Len(ss) |-> [at |-> offs[i], bytes |-> ss[i]]]]

\* --------------------------------------------- __process__, the passes
\* tags.list(): the caller's tags in the table's order.
RECURSIVE TableList(_)
TableList(t) ==
    IF t = {} THEN <<>>
    ELSE LET p == CHOOSE q \in t : \A o \in t : TagCode[q[1]] <= TagCode[o[1]]
         IN  <<dngTag(p[1], IF p[1] = "Make" THEN <<80, 105, 67, 97, 109, 0>> ELSE <<p[2]>>)>>
             \o TableList(t \ {p})

\* core.py 54, 56-61: Compression.LJ92 / Uncompressed, SampleFormat,
\* DNGVersion as their registry values.
CompressionScheme(compress) == IF Truthy(compress) THEN 7 ELSE 1
SampleFormatOf(frame) == IF frame.dtype = "float32" THEN 3 ELSE 1
BackwardVersionOf(frame) ==
    IF frame.dtype = "float32" THEN <<1, 4, 0, 0>> ELSE <<1, 0, 0, 0>>

\* core.py 96-106: the tags the engine adds, the strip offsets first, as
\* zero placeholders.
EngineTags(ss, frame, compress) ==
    <<dngTag("StripOffsets", [i \in 1..Len(ss) |-> 0]),
      dngTag("NewSubfileType", <<0>>),
      dngTag("StripByteCounts", StripLens(ss)),
      dngTag("Compression", <<CompressionScheme(compress)>>),
      dngTag("Software", <<80, 105, 68, 78, 71, 0>>),
      dngTag("DNGVersion", <<1, 4, 0, 0>>),
      dngTag("DNGBackwardVersion", BackwardVersionOf(frame)),
      dngTag("SampleFormat", <<SampleFormatOf(frame)>>)>>

\* core.py 108-112: every caller tag is appended to mainIFD.tags.
AppendCallerTags(tags, t) == tags \o TableList(t)

\* core.py 91-114.
Pass1 ==
    /\ pc = "pass1"
    /\ strips' = Append(strips, tile.bytes)
    /\ ifd' = AppendCallerTags(EngineTags(strips', filtered, self.compress), self.tags)
    /\ ifdsAdded' = TRUE
    /\ pc' = "pass2"
    /\ UNCHANGED <<config, image, filename, unpacked, filtered, tile, coderInvoked,
                   totalLength, stripOffsets, buf, outcome, fileOut>>

\* dngTemplate.IFDs
TemplateIFDs == IF ifdsAdded THEN <<ifd>> ELSE <<>>

\* core.py 116.
Pass2 ==
    /\ pc = "pass2"
    /\ totalLength' = DataLen(TemplateIFDs, strips)
    /\ stripOffsets' = Offsets(TemplateIFDs, strips)
    /\ pc' = "pass3"
    /\ UNCHANGED <<config, image, filename, unpacked, filtered, tile, coderInvoked, ifd,
                   strips, ifdsAdded, buf, outcome, fileOut>>

\* A variant of Pass3: the placeholder is never overwritten.
Pass3Skip ==
    /\ pc = "pass3"
    /\ pc' = "pass4"
    /\ UNCHANGED <<config, image, filename, unpacked, filtered, tile, coderInvoked, ifd,
                   strips, ifdsAdded, totalLength, stripOffsets, buf, outcome, fileOut>>

\* core.py 118-119: mainTagStripOffset is the first entry of mainIFD.tags.
Pass3 ==
    /\ pc = "pass3"
    /\ ifd' = [ifd EXCEPT ![1].val = stripOffsets]
    /\ pc' = "pass4"
    /\ UNCHANGED <<config, image, filename, unpacked, filtered, tile, coderInvoked,
                   strips, ifdsAdded, totalLength, stripOffsets, buf, outcome, fileOut>>

\* A variant of AllocLen: the buffer rounded up to a 4-byte boundary.
AllocLenAligned(total) == ((total + 3) \div 4) * 4

\* core.py 121: the length of the buffer allocated.
AllocLen(total) == total

\* core.py 121-125.
Pass4 ==
    /\ pc = "pass4"
    /\ buf' = Written(AllocLen(totalLength), TemplateIFDs, strips, stripOffsets)
    /\ pc' = "output"
    /\ UNCHANGED <<config, image, filename, unpacked, filtered, tile, coderInvoked, ifd,
                   strips, ifdsAdded, totalLength, stripOffsets, outcome, fileOut>>

\* core.py 150-151: the name ends in ".dng".
WithExt(f) == IF f = "frame" THEN "frame.dng" ELSE f

\* core.py 145-157.
Output ==
    /\ pc = "output"
    /\ IF filename # ""
       THEN /\ fileOut' = [written |-> TRUE, name |-> <<self.path, WithExt(filename)>>,
                           len |-> buf.len]
            /\ outcome' = "file"
       ELSE /\ fileOut' = fileOut
            /\ outcome' = "buffer"
    /\ pc' = "done"
    /\ UNCHANGED <<config, image, filename, unpacked, filtered, tile, coderInvoked, ifd,
                   strips, ifdsAdded, totalLength, stripOffsets, buf>>

Next ==
    \/ RawOptions
    \/ CamOptions
    \/ SetFilter
    \/ ConvertStart
    \/ Unpack
    \/ Filter
    \/ Encode
    \/ Pass1
    \/ Pass2
    \/ Pass3
    \/ Pass4
    \/ Output

Spec == Init /\ [][Next]_vars

\* ------------------------------------------- pack / unpack round trip
\* A second specification: a frame whose samples fit depth d is packed as
\* __process__ packs it (core.py 79-89) and the strip, reshaped to the
\* frame's rows, is decoded by RPICAM2DNG.__unpack_pixels__ under a packed
\* capture format of the same depth and size.
RTPatterns == {<<0, 0>>, <<1, 1>>, <<3, 5>>, <<255, 256>>, <<682, 341>>, <<1023, 1023>>}

RTFrames(d) ==
    {Arr("uint16", sh[1], sh[2], Ramp(p[1], p[2], sh[1] * sh[2], Pow2(d))) :
        sh \in Shapes, p \in RTPatterns}

InitRT ==
    /\ variant = "RPICAM2DNG"
    /\ \E d \in {10, 12} :
          /\ image \in RTFrames(d)
          /\ model = [tags |-> BaseTable(d),
                      fmt  |-> Fmt(image.cols, image.rows, (image.cols * d) \div 8, d, TRUE)]
    /\ self = [tags |-> model.tags, compress |-> "False", path |-> "",
               hasPredictor |-> FALSE, predictor |-> 0, filter |-> "None"]
    /\ optResult = "ok"
    /\ pc = "rt_pack"
    /\ filename = ""
    /\ unpacked = NoArray
    /\ filtered = NoArray
    /\ tile = NoTile
    /\ coderInvoked = FALSE
    /\ ifd = <<>>
    /\ strips = <<>>
    /\ ifdsAdded = FALSE
    /\ totalLength = 0
    /\ stripOffsets = <<>>
    /\ buf = NoBuf
    /\ outcome = "none"
    /\ fileOut = NoFile

RTPack ==
    /\ pc = "rt_pack"
    /\ tile' = [set |-> TRUE, bytes |-> PlainStrip(image, Get(self.tags, "BitsPerSample"))]
    /\ pc' = "rt_unpack"
    /\ UNCHANGED <<config, image, filename, unpacked, filtered, coderInvoked, ifd, strips,
                   ifdsAdded, totalLength, stripOffsets, buf, outcome, fileOut>>

RTUnpack ==
    /\ pc = "rt_unpack"
    /\ unpacked' = RPiUnpackPixels(model.fmt,
                       Arr("uint8", image.rows, Len(tile.bytes) \div image.rows, tile.bytes))
    /\ pc' = "rt_done"
    /\ UNCHANGED <<config, image, filename, filtered, tile, coderInvoked, ifd, strips,
                   ifdsAdded, totalLength, stripOffsets, buf, outcome, fileOut>>

NextRT == RTPack \/ RTUnpack

SpecRT == InitRT /\ [][NextRT]_vars

\* =============================================================== claims

BytesWritten(b) ==
    b.header + b.ifdLen + SumSeq([i \in 1..Len(b.strips) |-> Len(b.strips[i].bytes)])

RecordedOffsets(b) ==
    (CHOOSE e \in {b.ifd[i] : i \in 1..Len(b.ifd)} : e.tag = "StripOffsets").val

C4_NoOutputAfterFailedOptions ==
    optResult = "MissingRequiredTag" => outcome \notin {"buffer", "file"}

\* C4 as amended: an options() that fails on a missing required tag
\* allocates no buffer and leaves tags, compress, path and predictor as they
\* were, and they stay so until options() succeeds; a converter on which no
\* options() has succeeded has no tags and its convert() produces neither a
\* buffer nor a file; a buffer or file is only ever produced from a complete
\* tag table.
C4_FailedOptionsKeepConfig ==
    /\ [][optResult' = "MissingRequiredTag" =>
             /\ self'.tags = self.tags
             /\ self'.compress = self.compress
             /\ self'.path = self.path
             /\ self'.hasPredictor = self.hasPredictor
             /\ self'.predictor = self.predictor
             /\ (pc' = "idle" => ~buf'.allocated /\ ~fileOut'.written)]_vars
    /\ [](self.tags = NoTags =>
             ~buf.allocated /\ ~fileOut.written /\ outcome \notin {"buffer", "file"})
    /\ [](outcome \in {"buffer", "file"} => TagsCondition(self.tags) = "ok")

C4_Witness ==
    /\ optResult = "MissingRequiredTag"
    /\ self.tags = NoTags
    /\ outcome = "OptionsNotSet"

\* C5: a conversion that fails with a format error (float32 samples with
\* compress set, or compress set with a predictor other than 1 and 6) has
\* not invoked the external coder, has built no strip, container or buffer,
\* and yields neither buffer nor file; an uncompressed strip is never built
\* in its place.
C5_FormatErrorsFailFast ==
    /\ outcome \in {"UnsupportedCompression", "InvalidPredictor"} =>
          /\ pc = "done"
          /\ ~coderInvoked
          /\ ~tile.set
          /\ strips = <<>> /\ ifd = <<>>
          /\ ~buf.allocated
          /\ ~fileOut.written
    /\ (tile.set /\ Truthy(self.compress)) =>
          /\ filtered.dtype # "float32"
          /\ self.predictor \in {1, 6}
          /\ coderInvoked
    /\ (filtered.dtype = "float32" /\ Truthy(self.compress) /\ pc = "done"
          /\ self.hasPredictor) => outcome = "UnsupportedCompression"

C5_Witness ==
    /\ outcome = "UnsupportedCompression"
    /\ filtered.dtype = "float32"
    /\ Truthy(self.compress)

\* convert() is past its call of __filter__.
AfterFilter == pc \in {"encode", "pass1", "pass2", "pass3", "pass4", "output"}

\* C6: when the installed hook returns a result of another shape or of an
\* element type other than uint16, convert() fails before any packing,
\* layout or file write, and the array handed to the hook is as the unpacker
\* produced it; a result is taken on only with the input's shape and uint16
\* elements; with no hook the samples pass through unchanged.
C6_FilterContract ==
    /\ outcome \in {"FilterShapeError", "FilterTypeError"} =>
          /\ pc = "done"
          /\ self.filter # "None"
          /\ unpacked = UnpackPixels(variant, model.fmt, image)
          /\ ~tile.set
          /\ strips = <<>> /\ ifd = <<>>
          /\ ~buf.allocated
          /\ ~fileOut.written
    /\ (AfterFilter /\ self.filter # "None") =>
          /\ <<filtered.rows, filtered.cols>> = <<unpacked.rows, unpacked.cols>>
          /\ filtered.dtype = "uint16"
          /\ filtered = HookResult(self.filter, unpacked)
    /\ (AfterFilter /\ self.filter = "None") => filtered = unpacked

C6_Witness ==
    /\ outcome = "FilterShapeError"
    /\ self.filter = "badshape"
    /\ unpacked = image
    /\ unpacked.dtype = "uint16"

\* C7: given a uint8 capture buffer whose format declares a stored depth
\* other than 10, 12 or 16, the Pixel Unpacker fails with an
\* unsupported-format error and returns no samples; every array it returns
\* for a uint8 buffer has uint16 elements.
C7_UnsupportedDepthFails ==
    (IsRPi(variant) /\ image.dtype = "uint8" /\ unpacked # NoArray) =>
        /\ StoredBpp(model.fmt) \in {10, 12, 16}
        /\ unpacked.dtype = "uint16"

\* The strip by the rule of the design document, section 4.3.
ClaimedStrip(frame, bpp) ==
    IF frame.dtype = "float32" \/ bpp = 16 THEN ToBytes(frame)
    ELSE IF bpp = 8 THEN ToBytes(AsTypeU8(frame))
    ELSE ToBytes(PackBits(frame, bpp))

\* C8: with compression off, a float32 frame or a 16-bit depth is
\* byte-reinterpreted with no truncation and no packing; otherwise depth 8
\* truncates each sample to one byte and depths 10, 12 and 14 are bit-packed
\* to ceil(width*height*bpp/8) bytes.
C8_StripRule ==
    (tile.set /\ ~Truthy(self.compress)
        /\ (filtered.dtype = "float32" \/ Get(self.tags, "BitsPerSample") \in {8, 10, 12, 14, 16})) =>
        /\ tile.bytes = ClaimedStrip(filtered, Get(self.tags, "BitsPerSample"))
        /\ Get(self.tags, "BitsPerSample") \in {10, 12, 14} =>
              Len(tile.bytes) =
                 (filtered.rows * filtered.cols * Get(self.tags, "BitsPerSample") + 7) \div 8

\* C9: after Pass 1 the tag ids of the directory's tag collection are
\* pairwise distinct, also when the caller supplies a tag the engine adds
\* itself.
C9_DistinctTagIds ==
    \A i \in 1..Len(ifd) : \A j \in 1..Len(ifd) : i # j => ifd[i].tag # ifd[j].tag

\* C10: for every variant, after a successful options() every field
\* convert() reads (tags, compress, path, predictor, filter) is assigned, and
\* a following convert() does not fail on an unset field.
C10_OptionsAssignsEveryField ==
    /\ optResult = "ok" =>
          /\ self.tags # NoTags
          /\ self.compress # "None"
          /\ self.path # "None"
          /\ self.hasPredictor
    /\ outcome # "AttributeError"

====
